---------------------------- MODULE Spec2Model ----------------------------
(***************************************************************************)
(* A model of the rusp reader (src/main.rs): a recursive-descent parser    *)
(* over a Parser {curr_pos, text}.  The text is a sequence of Unicode      *)
(* scalar values (a Rust String seen through .chars()); text.len() is its  *)
(* length in UTF-8 bytes.  The recursion of read_expr / read_list is kept  *)
(* as an explicit call stack of frames holding each function's locals and  *)
(* its position; a panic stops the machine with the stack as it was.       *)
(***************************************************************************)
EXTENDS Integers, Sequences, FiniteSets, TLC

VARIABLES
    text,       \* parser.text, as a sequence of codepoints
    curr_pos,   \* parser.curr_pos
    stack,      \* the call stack, innermost frame last
    ret,        \* the Object returned by the call that just returned
    output,     \* the Objects println! has written, in order
    status,     \* "running", "done" (parse returned) or "panic"
    panic_msg   \* the panic message once status = "panic"

vars == <<text, curr_pos, stack, ret, output, status, panic_msg>>

---------------------------------------------------------------------------
(* Bounds of the model *)

\* longest input text, in codepoints
MaxLen == 5

\* iterations of read_number's loop that are followed
MaxAlpha == 4

---------------------------------------------------------------------------
(* Characters *)

LParen == 40
RParen == 41
Space == 32
CarriageReturn == 13
LineFeed == 10
Quote == 34
Plus == 43
Minus == 45
Slash == 47
Star == 42

\* the characters input texts are drawn from: the delimiters, a space, "+",
\* the letter "a" (97), the digit "1" (49) and the two-byte letter e-acute (233)
Alphabet == {LParen, RParen, Space, Quote, Plus, 97, 49, 233}

\* char::len_utf8
len_utf8(c) == IF c < 128 THEN 1 ELSE IF c < 2048 THEN 2 ELSE IF c < 65536 THEN 3 ELSE 4

\* char::is_numeric (Nd, Nl, No) on the code points below 256
is_numeric(c) == c \in (48..57) \cup {178, 179, 185, 188, 189, 190}

\* char::is_alphabetic on the code points below 256
is_alphabetic(c) ==
    c \in (65..90) \cup (97..122) \cup {170, 181, 186} \cup (192..214) \cup (216..246) \cup (248..255)

\* char::is_alphanumeric
is_alphanumeric(c) == is_alphabetic(c) \/ is_numeric(c)

is_symbol(chr) ==
    is_alphanumeric(chr) \/ chr = Plus \/ chr = Minus \/ chr = Slash \/ chr = Star

\* the whitespace arm of read_expr's match
is_whitespace(chr) == chr = Space \/ chr = CarriageReturn \/ chr = LineFeed

---------------------------------------------------------------------------
(* String and Option helpers *)

RECURSIVE ByteLen(_)
\* String::len: the length of the text in UTF-8 bytes
ByteLen(s) == IF s = <<>> THEN 0 ELSE len_utf8(Head(s)) + ByteLen(Tail(s))

None == [some |-> FALSE]
Some(x) == [some |-> TRUE, v |-> x]

\* text.chars().nth(n)
CharsNth(s, n) == IF n < Len(s) THEN Some(s[n + 1]) ELSE None

\* the largest i32
I32Max == 2147483647

RECURSIVE DecimalValue(_)
DecimalValue(s) ==
    IF s = <<>> THEN 0 ELSE 10 * DecimalValue(SubSeq(s, 1, Len(s) - 1)) + (s[Len(s)] - 48)

\* str::parse::<i32> on a buffer of digits: None for an empty buffer, a
\* non-digit or a value that does not fit
ParseI32(s) ==
    IF s = <<>> \/ (\E i \in 1..Len(s) : s[i] \notin 48..57) \/ Len(s) > 10 THEN None
    ELSE IF DecimalValue(s) > I32Max THEN None
    ELSE Some(DecimalValue(s))

---------------------------------------------------------------------------
(* Objects *)

create_sym_obj(content) == [type |-> "SYMBOL", val |-> [StringValue |-> content]]
create_num_obj(content) == [type |-> "NUMBER", val |-> [IntegerValue |-> content]]
create_str_obj(str) == [type |-> "STRING", val |-> [StringValue |-> str]]
create_list_obj(content) == [type |-> "LIST", val |-> [ListValue |-> content]]

\* ret before any call has returned
NoObject == [type |-> "NONE"]

---------------------------------------------------------------------------
(* Cursor *)

has_next_char(pos, s) == pos < ByteLen(s)

\* current_char: None is the panic "Unexpected EOF"
current_char(pos, s) == CharsNth(s, pos)

\* skip_char advancing two characters instead of one
skip_char_twice(pos) == pos + 2

\* skip_char: the new curr_pos
skip_char(pos) == pos + 1

\* next_char: the new curr_pos, and the character there (None: the panic)
next_char(pos, s) == [pos |-> pos + 1, chr |-> CharsNth(s, pos + 1)]

\* expect_char: None where current_char panics
expect_char(pos, s, ch) ==
    IF current_char(pos, s).some THEN Some(current_char(pos, s).v = ch) ELSE None

\* a push at the front of the Vec instead of its back
list_push_front(list, obj) == <<obj>> \o list

\* Vec::push in read_list
list_push(list, obj) == Append(list, obj)

\* alpha_value / symbol / str += &chr.to_string()
str_push(str, chr) == Append(str, chr)

---------------------------------------------------------------------------
(* The call stack *)

Top == stack[Len(stack)]
Running(fn, pc) == status = "running" /\ stack # <<>> /\ Top.fn = fn /\ Top.pc = pc

\* replace the innermost frame
SetTop(f) == [stack EXCEPT ![Len(stack)] = f]
\* the innermost frame moves to f and calls g
Call(f, g) == Append(SetTop(f), g)
Pop == SubSeq(stack, 1, Len(stack) - 1)

Panic(msg) ==
    /\ status' = "panic"
    /\ panic_msg' = msg
    /\ UNCHANGED <<text, stack, ret, output>>

ExprFrame == [fn |-> "read_expr", pc |-> "entry"]

Texts == UNION {[1..n -> Alphabet] : n \in 0..MaxLen}

Init ==
    /\ text \in Texts
    /\ curr_pos = 0
    /\ stack = <<[fn |-> "parse", pc |-> "entry"]>>
    /\ ret = NoObject
    /\ output = <<>>
    /\ status = "running"
    /\ panic_msg = ""

---------------------------------------------------------------------------
(* parse *)

\* parse, up to its loop
ParseEntry ==
    /\ Running("parse", "entry")
    /\ IF ByteLen(text) = 0
       THEN Panic("EOF") /\ UNCHANGED curr_pos
       ELSE /\ stack' = SetTop([Top EXCEPT !.pc = "loop"])
            /\ UNCHANGED <<text, curr_pos, ret, output, status, panic_msg>>

\* the test of parse's while loop: call read_expr, or return
ParseLoop ==
    /\ Running("parse", "loop")
    /\ IF has_next_char(curr_pos, text)
       THEN /\ stack' = Call([Top EXCEPT !.pc = "print"], ExprFrame)
            /\ UNCHANGED <<text, curr_pos, ret, output, status, panic_msg>>
       ELSE /\ status' = "done"
            /\ stack' = Pop
            /\ UNCHANGED <<text, curr_pos, ret, output, panic_msg>>

\* read_expr returned into parse: println!
ParsePrint ==
    /\ Running("parse", "print")
    /\ output' = Append(output, ret)
    /\ stack' = SetTop([Top EXCEPT !.pc = "loop"])
    /\ UNCHANGED <<text, curr_pos, ret, status, panic_msg>>

---------------------------------------------------------------------------
(* read_expr *)

\* the frame of the reader the non-whitespace arms of read_expr's match call
Dispatch(chr) ==
    IF chr = LParen THEN Some([fn |-> "read_list", pc |-> "entry"])
    ELSE IF chr = Quote THEN Some([fn |-> "read_str", pc |-> "entry"])
    ELSE IF is_numeric(chr) THEN Some([fn |-> "read_number", pc |-> "entry"])
    ELSE IF is_symbol(chr) THEN Some([fn |-> "read_symbol", pc |-> "entry"])
    ELSE None

\* read_expr, up to the call it makes
ReadExpr ==
    /\ Running("read_expr", "entry")
    /\ LET c == current_char(curr_pos, text) IN
       IF ~c.some THEN Panic("Unexpected EOF") /\ UNCHANGED curr_pos
       ELSE IF is_whitespace(c.v)
       THEN /\ curr_pos' = skip_char(curr_pos)
            /\ stack' = Call([Top EXCEPT !.pc = "ret"] @@ [chr |-> c.v], ExprFrame)
            /\ UNCHANGED <<text, ret, output, status, panic_msg>>
       ELSE IF Dispatch(c.v).some
       THEN /\ stack' = Call([Top EXCEPT !.pc = "ret"] @@ [chr |-> c.v], Dispatch(c.v).v)
            /\ UNCHANGED <<text, curr_pos, ret, output, status, panic_msg>>
       ELSE Panic("Invalid symbol") /\ UNCHANGED curr_pos

\* the reader read_expr called returned: read_expr returns its Object
ReadExprReturn ==
    /\ Running("read_expr", "ret")
    /\ stack' = Pop
    /\ UNCHANGED <<text, curr_pos, ret, output, status, panic_msg>>

---------------------------------------------------------------------------
(* read_list *)

\* read_list, up to its loop
ReadListEntry ==
    /\ Running("read_list", "entry")
    /\ curr_pos' = skip_char(curr_pos)
    /\ stack' = SetTop([Top EXCEPT !.pc = "loop"] @@ [list |-> <<>>])
    /\ UNCHANGED <<text, ret, output, status, panic_msg>>

\* the test of read_list's while loop and what follows it: the closing
\* parenthesis is skipped and the LIST returned, or read_expr is called
ReadListLoop ==
    /\ Running("read_list", "loop")
    /\ LET e == expect_char(curr_pos, text, RParen) IN
       IF ~e.some THEN Panic("Unexpected EOF") /\ UNCHANGED curr_pos
       ELSE IF e.v
       THEN /\ curr_pos' = skip_char(curr_pos)
            /\ ret' = create_list_obj(Top.list)
            /\ stack' = Pop
            /\ UNCHANGED <<text, output, status, panic_msg>>
       ELSE IF ~has_next_char(curr_pos, text)
       THEN Panic("SyntaxError: Unexpected EOF") /\ UNCHANGED curr_pos
       ELSE /\ stack' = Call([Top EXCEPT !.pc = "push"], ExprFrame)
            /\ UNCHANGED <<text, curr_pos, ret, output, status, panic_msg>>

\* read_expr returned into read_list: list.push(parsed_expr)
ReadListPush ==
    /\ Running("read_list", "push")
    /\ stack' = SetTop([Top EXCEPT !.pc = "loop", !.list = list_push(@, ret)])
    /\ UNCHANGED <<text, curr_pos, ret, output, status, panic_msg>>

---------------------------------------------------------------------------
(* read_symbol *)

\* read_symbol, up to its loop
ReadSymbolEntry ==
    /\ Running("read_symbol", "entry")
    /\ LET c == current_char(curr_pos, text) IN
       IF ~c.some THEN Panic("Unexpected EOF") /\ UNCHANGED curr_pos
       ELSE /\ stack' = SetTop([Top EXCEPT !.pc = "loop"] @@ [symbol |-> <<>>, chr |-> c.v])
            /\ UNCHANGED <<text, curr_pos, ret, output, status, panic_msg>>

\* one test of read_symbol's while loop: an iteration, or the return
ReadSymbolLoop ==
    /\ Running("read_symbol", "loop")
    /\ IF has_next_char(curr_pos, text) /\ is_symbol(Top.chr)
       THEN LET n == next_char(curr_pos, text) IN
            /\ curr_pos' = n.pos
            /\ IF ~n.chr.some
               THEN Panic("Unexpected EOF")
               ELSE /\ stack' = SetTop([Top EXCEPT !.symbol = str_push(@, Top.chr),
                                                   !.chr = n.chr.v])
                    /\ UNCHANGED <<text, ret, output, status, panic_msg>>
       ELSE /\ ret' = create_sym_obj(Top.symbol)
            /\ stack' = Pop
            /\ UNCHANGED <<text, curr_pos, output, status, panic_msg>>

---------------------------------------------------------------------------
(* read_str *)

\* read_str, up to its loop
ReadStrEntry ==
    /\ Running("read_str", "entry")
    /\ curr_pos' = skip_char(curr_pos)
    /\ LET c == current_char(skip_char(curr_pos), text) IN
       IF ~c.some THEN Panic("Unexpected EOF")
       ELSE /\ stack' = SetTop([Top EXCEPT !.pc = "loop"] @@ [str |-> <<>>, chr |-> c.v])
            /\ UNCHANGED <<text, ret, output, status, panic_msg>>

\* one test of read_str's while loop: an iteration, or the closing quote
\* is skipped and the STRING returned
ReadStrLoop ==
    /\ Running("read_str", "loop")
    /\ LET e == expect_char(curr_pos, text, Quote) IN
       IF ~e.some THEN Panic("Unexpected EOF") /\ UNCHANGED curr_pos
       ELSE IF e.v
       THEN /\ curr_pos' = skip_char(curr_pos)
            /\ ret' = create_str_obj(Top.str)
            /\ stack' = Pop
            /\ UNCHANGED <<text, output, status, panic_msg>>
       ELSE IF ~has_next_char(curr_pos, text)
       THEN Panic("Unexpected EOF") /\ UNCHANGED curr_pos
       ELSE LET n == next_char(curr_pos, text) IN
            /\ curr_pos' = n.pos
            /\ IF ~n.chr.some
               THEN Panic("Unexpected EOF")
               ELSE /\ stack' = SetTop([Top EXCEPT !.str = str_push(@, Top.chr),
                                                   !.chr = n.chr.v])
                    /\ UNCHANGED <<text, ret, output, status, panic_msg>>

---------------------------------------------------------------------------
(* read_number *)

\* read_number, up to its loop
ReadNumberEntry ==
    /\ Running("read_number", "entry")
    /\ LET c == current_char(curr_pos, text) IN
       IF ~c.some THEN Panic("Unexpected EOF") /\ UNCHANGED curr_pos
       ELSE /\ stack' = SetTop([Top EXCEPT !.pc = "loop"] @@ [alpha_value |-> <<>>, chr |-> c.v])
            /\ UNCHANGED <<text, curr_pos, ret, output, status, panic_msg>>

\* one test of read_number's while loop: an iteration (which reads no
\* character and moves no cursor), or the parse of the buffer and the
\* return.  Iterations are followed while the buffer is shorter than MaxAlpha.
ReadNumberLoop ==
    /\ Running("read_number", "loop")
    /\ IF has_next_char(curr_pos, text) /\ is_numeric(Top.chr)
       THEN /\ Len(Top.alpha_value) < MaxAlpha
            /\ stack' = SetTop([Top EXCEPT !.alpha_value = str_push(@, Top.chr)])
            /\ UNCHANGED <<text, curr_pos, ret, output, status, panic_msg>>
       ELSE LET numeric_value == ParseI32(Top.alpha_value) IN
            IF ~numeric_value.some
            THEN Panic("SyntaxError: not a number") /\ UNCHANGED curr_pos
            ELSE /\ ret' = create_num_obj(numeric_value.v)
                 /\ stack' = Pop
                 /\ UNCHANGED <<text, curr_pos, output, status, panic_msg>>

---------------------------------------------------------------------------

Next ==
    \/ ParseEntry
    \/ ParseLoop
    \/ ParsePrint
    \/ ReadExpr
    \/ ReadExprReturn
    \/ ReadListEntry
    \/ ReadListLoop
    \/ ReadListPush
    \/ ReadSymbolEntry
    \/ ReadSymbolLoop
    \/ ReadStrEntry
    \/ ReadStrLoop
    \/ ReadNumberEntry
    \/ ReadNumberLoop

Spec == Init /\ [][Next]_vars

---------------------------------------------------------------------------
(* The values a text denotes, for the statements below: the grammar of     *)
(* symbols, quoted strings, digit runs and parenthesised lists, with       *)
(* whitespace transparent between expressions.                             *)

Fail == [ok |-> FALSE]
Ok(v, p) == [ok |-> TRUE, val |-> v, pos |-> p]

RECURSIVE RunEnd(_, _, _)
\* the first position at or after p whose character is not in class k
RunEnd(t, p, k) ==
    IF p < Len(t) /\ (IF k = "digit" THEN is_numeric(t[p + 1])
                      ELSE IF k = "symbol" THEN is_symbol(t[p + 1])
                      ELSE IF k = "space" THEN is_whitespace(t[p + 1])
                      ELSE t[p + 1] # Quote)
    THEN RunEnd(t, p + 1, k) ELSE p

RECURSIVE ExpectedExpr(_, _)
RECURSIVE ExpectedList(_, _, _)
\* the value of the expression that starts at position p, and where it ends
ExpectedExpr(t, p) ==
    LET q == RunEnd(t, p, "space") IN
    IF q >= Len(t) THEN Fail
    ELSE IF t[q + 1] = LParen THEN ExpectedList(t, q + 1, <<>>)
    ELSE IF t[q + 1] = Quote
    THEN LET e == RunEnd(t, q + 1, "string") IN
         IF e >= Len(t) THEN Fail
         ELSE Ok([type |-> "STRING", val |-> [StringValue |-> SubSeq(t, q + 2, e)]], e + 1)
    ELSE IF is_numeric(t[q + 1])
    THEN LET e == RunEnd(t, q, "digit") IN
         Ok([type |-> "NUMBER", val |-> [IntegerValue |-> DecimalValue(SubSeq(t, q + 1, e))]], e)
    ELSE IF is_symbol(t[q + 1])
    THEN LET e == RunEnd(t, q, "symbol") IN
         Ok([type |-> "SYMBOL", val |-> [StringValue |-> SubSeq(t, q + 1, e)]], e)
    ELSE Fail

\* the list whose elements so far are acc and whose next element or closing
\* parenthesis is at or after position p
ExpectedList(t, p, acc) ==
    LET q == RunEnd(t, p, "space") IN
    IF q >= Len(t) THEN Fail
    ELSE IF t[q + 1] = RParen
    THEN Ok([type |-> "LIST", val |-> [ListValue |-> acc]], q + 1)
    ELSE LET r == ExpectedExpr(t, q) IN
         IF ~r.ok THEN Fail ELSE ExpectedList(t, r.pos, Append(acc, r.val))

RECURSIVE ExpectedAll(_, _, _)
\* the first n top-level values from position p on
ExpectedAll(t, p, n) ==
    IF n = 0 THEN <<>>
    ELSE LET r == ExpectedExpr(t, p) IN
         IF ~r.ok THEN <<>> ELSE <<r.val>> \o ExpectedAll(t, r.pos, n - 1)

RECURSIVE Brackets(_, _)
\* the first n characters scanned: inside a string or not, the positions of
\* the parentheses still open, and whether a ")" came with none open
Brackets(t, n) ==
    IF n = 0 THEN [in_str |-> FALSE, opens |-> <<>>, stray |-> FALSE]
    ELSE LET b == Brackets(t, n - 1)
             c == t[n]
         IN  IF b.in_str THEN [b EXCEPT !.in_str = (c # Quote)]
             ELSE IF c = Quote THEN [b EXCEPT !.in_str = TRUE]
             ELSE IF c = LParen THEN [b EXCEPT !.opens = Append(@, n - 1)]
             ELSE IF c = RParen
             THEN IF b.opens = <<>> THEN [b EXCEPT !.stray = TRUE]
                  ELSE [b EXCEPT !.opens = SubSeq(@, 1, Len(@) - 1)]
             ELSE b

\* the position of the "(" that the ")" just before position p closes
MatchOpen(t, p) ==
    LET o == Brackets(t, p - 1).opens IN IF o = <<>> THEN -1 ELSE o[Len(o)]

\* a list or a string is opened and the text ends before it is closed
Unclosed(t) ==
    LET b == Brackets(t, Len(t)) IN ~b.stray /\ (b.in_str \/ b.opens # <<>>)

\* read_list has just returned into read_expr
ListReturned == Running("read_expr", "ret") /\ Top.chr = LParen /\ ret # NoObject /\ ret.type = "LIST"

---------------------------------------------------------------------------
(* Claims *)

\* C1: every iteration of a reader's loop that does not abort strictly
\* increases curr_pos, so that parse terminates on every finite text.
ForwardProgress ==
    [][(/\ status' = "running"
        /\ stack # <<>> /\ Len(stack') = Len(stack)
        /\ Top.fn \in {"read_symbol", "read_str", "read_number"}
        /\ Top.pc = "loop" /\ Top'.pc = "loop")
       => curr_pos' > curr_pos]_vars

\* C2: read_number consumes the digits it accumulates: in its loop the buffer
\* is the text just behind the cursor, and the NUMBER it returns is the
\* decimal value of the maximal digit run, the cursor left after that run.
NumberConsumesDigits ==
    /\ Running("read_number", "loop") =>
           /\ Len(Top.alpha_value) <= curr_pos
           /\ Top.alpha_value = SubSeq(text, curr_pos - Len(Top.alpha_value) + 1, curr_pos)
    /\ (Running("read_expr", "ret") /\ is_numeric(Top.chr)) =>
           /\ ret.type = "NUMBER"
           /\ curr_pos = RunEnd(text, curr_pos - 1, "digit")
           /\ \E s \in 0..(curr_pos - 1) : ExpectedExpr(text, s) = Ok(ret, curr_pos)

\* C3: read_symbol never aborts: the end of the text ends the symbol.
SymbolEndsAtEndOfInput ==
    (stack # <<>> /\ Top.fn = "read_symbol") => status # "panic"

\* C4: trailing whitespace after the last top-level expression is consumed
\* without error: the parse does not abort in the whitespace that follows a
\* value it has already produced.
TrailingWhitespaceConsumed ==
    ~(/\ status = "panic"
      /\ output # <<>>
      /\ Len(stack) >= 3
      /\ curr_pos = Len(text)
      /\ \A i \in 2..Len(stack) :
            /\ stack[i].fn = "read_expr"
            /\ (i < Len(stack) => is_whitespace(stack[i].chr)))

\* C5: whitespace is transparent at every position inside a list: the ")"
\* that closes an open list is never rejected as an invalid character.
ListWhitespaceTransparent ==
    ~(/\ status = "panic"
      /\ panic_msg = "Invalid symbol"
      /\ current_char(curr_pos, text) = Some(RParen)
      /\ \E i \in 1..Len(stack) : stack[i].fn = "read_list")

\* C6: no partial results: when the parse aborts, no top-level value has
\* been emitted.
NoPartialResults == status = "panic" => output = <<>>

\* C7: a text that ends inside an open list or string aborts with
\* "Unexpected EOF": it is never parsed to the end, it aborts with no other
\* error, and no reader accumulates more characters than the text holds.
UnclosedAborts ==
    Unclosed(text) =>
        /\ status # "done"
        /\ status = "panic" => panic_msg \in {"Unexpected EOF", "SyntaxError: Unexpected EOF"}
        /\ Running("read_number", "loop") =>
               Len(Top.alpha_value) <= Cardinality({i \in 1..Len(text) : is_numeric(text[i])})

\* C8: when read_list returns, its LIST holds exactly the values of the
\* elements between the "(" it was called on and the matching ")", in source
\* order, the cursor is just past that ")", and the values parse has emitted
\* are the text's top-level values in source order.
ListValueInSourceOrder ==
    /\ ListReturned =>
           /\ curr_pos >= 2
           /\ text[curr_pos] = RParen
           /\ ExpectedExpr(text, MatchOpen(text, curr_pos)) = Ok(ret, curr_pos)
    /\ output = ExpectedAll(text, 0, Len(output))

\* C8 happens: a LIST of two children, one of them a LIST, is returned
ListValueWitness ==
    /\ ListReturned
    /\ Len(ret.val.ListValue) = 2
    /\ \E i \in 1..2 : ret.val.ListValue[i].type = "LIST"
    /\ \E i \in 1..2 : ret.val.ListValue[i].type = "SYMBOL"

\* C9: 0 <= curr_pos <= the number of codepoints of the text in every state,
\* and curr_pos never decreases.
CursorInBounds ==
    /\ [](0 <= curr_pos /\ curr_pos <= Len(text))
    /\ [][curr_pos' >= curr_pos]_vars

\* C9 happens: the cursor has moved over a whole text, by skip_char and by
\* next_char, to its end
CursorWitness ==
    /\ status = "done"
    /\ curr_pos = Len(text)
    /\ Len(text) >= 4
    /\ output # <<>>
    /\ \E i \in 1..Len(output) : output[i].type = "SYMBOL"

\* C10: while the parse runs, has_next_char is true exactly when curr_pos is
\* smaller than the number of codepoints of the text.
HasNextAgrees ==
    status = "running" => (has_next_char(curr_pos, text) <=> curr_pos < Len(text))

===========================================================================
